---- MODULE Spec2Model ----
(***************************************************************************)
(* A model of ycbcr.py: the per-format frame layouts (classes Y, YV12,     *)
(* IYUV, UYVY, YVYU, YUY2, Y422), the frame codec (__read_frame and        *)
(* __write_frame), the chroma resampling filters (__conv420to422 and       *)
(* __conv422to420) and the file operations of class YCbCr.                 *)
(*                                                                         *)
(* The program is Python 2: "/" on integers is floor division, ">>" is an  *)
(* arithmetic (floor) shift, sequences are indexed from 0.  The model keeps*)
(* Python's 0-based positions and converts at the point of indexing.       *)
(***************************************************************************)
EXTENDS Integers, Sequences, FiniteSets, TLC

(***************************************************************************)
(* Bounds of the model.                                                    *)
(***************************************************************************)
MaxWidth == 2
MaxHeight == 2
MaxFrames == 2
MaxTail == 1
MaxPlane == 8
MaxCodec == 4

\* small frames of every parity, and frames with a side of 16
Dims == ((1..MaxWidth) \X (1..MaxHeight)) \cup ({2, 16} \X {2, 16})
Samples == {0, 128, 255}

(***************************************************************************)
(* Formats.                                                                *)
(***************************************************************************)
None == "None"
FormatsIn == {"IYUV", "UYVY", "YV12", "YVYU", "YUY2"}
FormatsOut == {"IYUV", "UYVY", "YV12", "YVYU", "YUY2", "422"}
f420 == {"YV12", "IYUV"}
f422 == {"UYVY", "YVYU", "YUY2", "422"}

(***************************************************************************)
(* Python helpers: 0-based indexing, slices, shifts.                       *)
(***************************************************************************)
At(s, k) == s[k + 1]

Abs(v) == IF v < 0 THEN 0 - v ELSE v

Min(a, b) == IF a < b THEN a ELSE b

Max(a, b) == IF a > b THEN a ELSE b

Zeros(n) == [k \in 1..n |-> 0]

Shr(v, n) == v \div (2 ^ n)

Slice(start, stop, step) == [start |-> start, stop |-> stop, step |-> step]

\* slice.indices(len) for the non-negative starts and positive steps used here
SliceStart(sl, len) == IF sl.start > len THEN len ELSE sl.start

SliceStop(sl, len) == IF sl.stop > len THEN len ELSE sl.stop

SliceLength(sl, len) ==
    LET a == SliceStart(sl, len)
        b == SliceStop(sl, len)
    IN IF b > a THEN ((b - a - 1) \div sl.step) + 1 ELSE 0

\* the 0-based positions a slice selects in a sequence of length len
SlicePositions(sl, len) ==
    [k \in 1..SliceLength(sl, len) |-> SliceStart(sl, len) + (k - 1) * sl.step]

\* array.__getitem__(slice)
GetSlice(raw, sl) ==
    LET p == SlicePositions(sl, Len(raw))
    IN [k \in 1..Len(p) |-> At(raw, p[k])]

\* list.__setitem__(slice, v): a plain slice is replaced by v whatever the
\* lengths; an extended slice demands len(v) = slice length (ValueError)
SetSlice(data, sl, v) ==
    LET len == Len(data)
        a == SliceStart(sl, len)
        b0 == SliceStop(sl, len)
        b == IF b0 < a THEN a ELSE b0
        p == SlicePositions(sl, len)
    IN IF sl.step = 1
       THEN [err |-> "none",
             val |-> SubSeq(data, 1, a) \o v \o SubSeq(data, b + 1, len)]
       ELSE IF Len(v) # Len(p)
            THEN [err |-> "ValueError", val |-> data]
            ELSE [err |-> "none",
                  val |-> [k \in 1..len |->
                            IF k - 1 >= a /\ k - 1 < b /\ (k - 1 - a) % sl.step = 0
                            THEN v[((k - 1 - a) \div sl.step) + 1]
                            ELSE data[k]]]

\* array.array('B', data): every item must be an unsigned byte
IsByteSeq(data) == \A k \in 1..Len(data) : data[k] >= 0 /\ data[k] <= 255

(***************************************************************************)
(* Classes Y, YV12, IYUV, UYVY, YVYU, YUY2, Y422.                          *)
(***************************************************************************)
get_420_partitioning(w, h) ==
    LET wh == w * h
    IN <<0, wh, wh, (wh \div 4) * 5, (wh \div 4) * 5, (wh \div 2) * 3>>

get_422_partitioning(w, h) ==
    LET wh == w * h
    IN <<0, wh, wh, (wh \div 2) * 5, (wh \div 2) * 5, wh * 3>>

\* IYUV given the frame size of a packed format
get_frame_size_iyuv_packed(fmt, w, h) ==
    CASE fmt = "YV12" -> (w * h * 3) \div 2
      [] fmt = "IYUV" -> w * h * 2
      [] fmt = "UYVY" -> w * h * 2
      [] fmt = "YVYU" -> w * h * 2
      [] fmt = "YUY2" -> w * h * 2
      [] fmt = "422" -> w * h * 2

get_frame_size(fmt, w, h) ==
    CASE fmt = "YV12" -> (w * h * 3) \div 2
      [] fmt = "IYUV" -> (w * h * 3) \div 2
      [] fmt = "UYVY" -> w * h * 2
      [] fmt = "YVYU" -> w * h * 2
      [] fmt = "YUY2" -> w * h * 2
      [] fmt = "422" -> w * h * 2

\* IYUV returning its planes in storage order, like YV12
get_layout_iyuv_unswapped(fmt, w, h) ==
    LET p == get_420_partitioning(w, h)
        q == get_422_partitioning(w, h)
        fs == get_frame_size(fmt, w, h)
    IN CASE fmt = "YV12" ->
              <<Slice(p[1], p[2], 1), Slice(p[3], p[4], 1), Slice(p[5], p[6], 1)>>
         [] fmt = "IYUV" ->
              <<Slice(p[1], p[2], 1), Slice(p[3], p[4], 1), Slice(p[5], p[6], 1)>>
         [] fmt = "UYVY" ->
              <<Slice(1, fs, 2), Slice(0, fs, 4), Slice(2, fs, 4)>>
         [] fmt = "YVYU" ->
              <<Slice(0, fs, 2), Slice(3, fs, 4), Slice(1, fs, 4)>>
         [] fmt = "YUY2" ->
              <<Slice(0, fs, 2), Slice(1, fs, 4), Slice(3, fs, 4)>>
         [] fmt = "422" ->
              <<Slice(q[1], q[2], 1), Slice(q[3], q[4], 1), Slice(q[5], q[6], 1)>>

get_layout(fmt, w, h) ==
    LET p == get_420_partitioning(w, h)
        q == get_422_partitioning(w, h)
        fs == get_frame_size(fmt, w, h)
    IN CASE fmt = "YV12" ->
              <<Slice(p[1], p[2], 1), Slice(p[3], p[4], 1), Slice(p[5], p[6], 1)>>
         [] fmt = "IYUV" ->
              <<Slice(p[1], p[2], 1), Slice(p[5], p[6], 1), Slice(p[3], p[4], 1)>>
         [] fmt = "UYVY" ->
              <<Slice(1, fs, 2), Slice(0, fs, 4), Slice(2, fs, 4)>>
         [] fmt = "YVYU" ->
              <<Slice(0, fs, 2), Slice(3, fs, 4), Slice(1, fs, 4)>>
         [] fmt = "YUY2" ->
              <<Slice(0, fs, 2), Slice(1, fs, 4), Slice(3, fs, 4)>>
         [] fmt = "422" ->
              <<Slice(q[1], q[2], 1), Slice(q[3], q[4], 1), Slice(q[5], q[6], 1)>>

(***************************************************************************)
(* YCbCr.__read_frame and the encoding half of YCbCr.__write_frame.        *)
(***************************************************************************)
\* the three planes that __read_frame slices out of one raw frame
read_frame(raw, layout) ==
    [y |-> GetSlice(raw, layout[1]),
     cb |-> GetSlice(raw, layout[2]),
     cr |-> GetSlice(raw, layout[3])]

\* data = [0] * frame_size_out, the three slice assignments in the order
\* y, cb, cr, then array.array('B', data)
\* the Cr plane assigned through the Cb slice
encode_cr_at_cb(y, cb, cr, layout, frame_size) ==
    LET d0 == Zeros(frame_size)
        r1 == SetSlice(d0, layout[1], y)
        r2 == SetSlice(r1.val, layout[2], cb)
        r3 == SetSlice(r2.val, layout[2], cr)
    IN IF r1.err # "none" THEN [err |-> r1.err, val |-> <<>>]
       ELSE IF r2.err # "none" THEN [err |-> r2.err, val |-> <<>>]
       ELSE IF r3.err # "none" THEN [err |-> r3.err, val |-> <<>>]
       ELSE IF ~IsByteSeq(r3.val) THEN [err |-> "OverflowError", val |-> <<>>]
       ELSE [err |-> "none", val |-> r3.val]

encode(y, cb, cr, layout, frame_size) ==
    LET d0 == Zeros(frame_size)
        r1 == SetSlice(d0, layout[1], y)
        r2 == SetSlice(r1.val, layout[2], cb)
        r3 == SetSlice(r2.val, layout[3], cr)
    IN IF r1.err # "none" THEN [err |-> r1.err, val |-> <<>>]
       ELSE IF r2.err # "none" THEN [err |-> r2.err, val |-> <<>>]
       ELSE IF r3.err # "none" THEN [err |-> r3.err, val |-> <<>>]
       ELSE IF ~IsByteSeq(r3.val) THEN [err |-> "OverflowError", val |-> <<>>]
       ELSE [err |-> "none", val |-> r3.val]

(***************************************************************************)
(* The chroma filters.                                                     *)
(***************************************************************************)
\* jmK = 0 if (j<K) else j-K
Jm(j, k) == IF j < k THEN 0 ELSE j - k

\* jpK = j+K if (j<h-K) else h-1
Jp(j, k, h) == IF j < h - k THEN j + k ELSE h - 1

\* dst[..] = pel if pel > 0 else 0 ; dst[..] = pel if pel < 255 else 255
\* the second assignment overwrites the first
store_pel(pel) ==
    LET first == IF pel > 0 THEN pel ELSE 0
        second == IF pel < 255 THEN pel ELSE 255
    IN second

pel420to422_even(src, w, h, i, j) ==
    Shr(3 * At(src, i + w * Jm(j, 3))
        - 16 * At(src, i + w * Jm(j, 2))
        + 67 * At(src, i + w * Jm(j, 1))
        + 227 * At(src, i + w * j)
        - 32 * At(src, i + w * Jp(j, 1, h))
        + 7 * At(src, i + w * Jp(j, 2, h)) + 128, 8)

\* the odd line filtered with the even line's tap order
pel420to422_odd_unmirrored(src, w, h, i, j) ==
    Shr(3 * At(src, i + w * Jm(j, 3))
        - 16 * At(src, i + w * Jm(j, 2))
        + 67 * At(src, i + w * Jm(j, 1))
        + 227 * At(src, i + w * j)
        - 32 * At(src, i + w * Jp(j, 1, h))
        + 7 * At(src, i + w * Jp(j, 2, h)) + 128, 8)

pel420to422_odd(src, w, h, i, j) ==
    Shr(3 * At(src, i + w * Jp(j, 3, h))
        - 16 * At(src, i + w * Jp(j, 2, h))
        + 67 * At(src, i + w * Jp(j, 1, h))
        + 227 * At(src, i + w * j)
        - 32 * At(src, i + w * Jm(j, 1))
        + 7 * At(src, i + w * Jm(j, 2)) + 128, 8)

\* the loops write dst[i + w*j2] and dst[i + w*(j2+1)] for i < w, j < h;
\* position k of dst is column k % w of output row k / w
conv420to422(src, dst, width, height) ==
    LET w == Shr(width, 1)
        h == Shr(height, 1)
    IN IF w = 0 \/ h = 0 THEN [err |-> "none", val |-> dst]
       ELSE IF w * h > Len(src) \/ w * 2 * h > Len(dst)
            THEN [err |-> "IndexError", val |-> dst]
            ELSE [err |-> "none",
                  val |-> [n \in 1..Len(dst) |->
                    LET k == n - 1
                        i == k % w
                        r == k \div w
                    IN IF k >= w * 2 * h THEN dst[n]
                       ELSE IF r % 2 = 0
                            THEN store_pel(pel420to422_even(src, w, h, i, r \div 2))
                            ELSE store_pel(pel420to422_odd(src, w, h, i, r \div 2))]]

\* the sixth tap one row further down than the fifth
jp6_next_row(j, h) == IF j < h - 6 THEN j + 6 ELSE h - 1

\* jp6 = j+5 if (j<h-5) else h-1 (the source's changed sixth tap)
jp6(j, h) == IF j < h - 5 THEN j + 5 ELSE h - 1

\* the second coefficient mistyped (7 for 70)
pel422to420_coeff_typo(src, w, h, i, j) ==
    Shr(228 * (At(src, i + w * j) + At(src, i + w * Jp(j, 1, h)))
        + 7 * (At(src, i + w * Jm(j, 1)) + At(src, i + w * Jp(j, 2, h)))
        - 37 * (At(src, i + w * Jm(j, 2)) + At(src, i + w * Jp(j, 3, h)))
        - 21 * (At(src, i + w * Jm(j, 3)) + At(src, i + w * Jp(j, 4, h)))
        + 11 * (At(src, i + w * Jm(j, 4)) + At(src, i + w * Jp(j, 5, h)))
        + 5 * (At(src, i + w * Jm(j, 5)) + At(src, i + w * jp6(j, h))) + 256, 9)

pel422to420(src, w, h, i, j) ==
    Shr(228 * (At(src, i + w * j) + At(src, i + w * Jp(j, 1, h)))
        + 70 * (At(src, i + w * Jm(j, 1)) + At(src, i + w * Jp(j, 2, h)))
        - 37 * (At(src, i + w * Jm(j, 2)) + At(src, i + w * Jp(j, 3, h)))
        - 21 * (At(src, i + w * Jm(j, 3)) + At(src, i + w * Jp(j, 4, h)))
        + 11 * (At(src, i + w * Jm(j, 4)) + At(src, i + w * Jp(j, 5, h)))
        + 5 * (At(src, i + w * Jm(j, 5)) + At(src, i + w * jp6(j, h))) + 256, 9)

\* the loops write dst[i + w*(j>>1)] for i < w and even j < h
conv422to420(src, dst, width, height) ==
    LET w == Shr(width, 1)
        h == height
        rows == (h + 1) \div 2
    IN IF w = 0 \/ h = 0 THEN [err |-> "none", val |-> dst]
       ELSE IF w * h > Len(src) \/ w * rows > Len(dst)
            THEN [err |-> "IndexError", val |-> dst]
            ELSE [err |-> "none",
                  val |-> [n \in 1..Len(dst) |->
                    LET k == n - 1
                        i == k % w
                        r == k \div w
                    IN IF k >= w * rows THEN dst[n]
                       ELSE store_pel(pel422to420(src, w, h, i, 2 * r))]]

(***************************************************************************)
(* YCbCr.__resample.                                                       *)
(***************************************************************************)
\* the generic planar format left out of the 4:2:2 outputs
resample_skips_422(fmt_in, fmt_out, width, height, cb, cr) ==
    IF fmt_in \in f420 /\ fmt_out \in f422 \ {"422"}
    THEN LET rb == conv420to422(cb, Zeros((width * height) \div 2), width, height)
             rr == conv420to422(cr, Zeros((width * height) \div 2), width, height)
         IN IF rb.err # "none" THEN [err |-> rb.err, cb |-> cb, cr |-> cr]
            ELSE IF rr.err # "none" THEN [err |-> rr.err, cb |-> rb.val, cr |-> cr]
            ELSE [err |-> "none", cb |-> rb.val, cr |-> rr.val]
    ELSE IF fmt_in \in f422 /\ fmt_out \in f420
    THEN LET rb == conv422to420(cb, Zeros((width * height) \div 4), width, height)
             rr == conv422to420(cr, Zeros((width * height) \div 4), width, height)
         IN IF rb.err # "none" THEN [err |-> rb.err, cb |-> cb, cr |-> cr]
            ELSE IF rr.err # "none" THEN [err |-> rr.err, cb |-> rb.val, cr |-> cr]
            ELSE [err |-> "none", cb |-> rb.val, cr |-> rr.val]
    ELSE [err |-> "none", cb |-> cb, cr |-> cr]

resample(fmt_in, fmt_out, width, height, cb, cr) ==
    IF fmt_in \in f420 /\ fmt_out \in f422
    THEN LET rb == conv420to422(cb, Zeros((width * height) \div 2), width, height)
             rr == conv420to422(cr, Zeros((width * height) \div 2), width, height)
         IN IF rb.err # "none" THEN [err |-> rb.err, cb |-> cb, cr |-> cr]
            ELSE IF rr.err # "none" THEN [err |-> rr.err, cb |-> rb.val, cr |-> cr]
            ELSE [err |-> "none", cb |-> rb.val, cr |-> rr.val]
    ELSE IF fmt_in \in f422 /\ fmt_out \in f420
    THEN LET rb == conv422to420(cb, Zeros((width * height) \div 4), width, height)
             rr == conv422to420(cr, Zeros((width * height) \div 4), width, height)
         IN IF rb.err # "none" THEN [err |-> rb.err, cb |-> cb, cr |-> cr]
            ELSE IF rr.err # "none" THEN [err |-> rr.err, cb |-> rb.val, cr |-> cr]
            ELSE [err |-> "none", cb |-> rb.val, cr |-> rr.val]
    ELSE [err |-> "none", cb |-> cb, cr |-> cr]

(***************************************************************************)
(* State of one run: the constructor arguments, the files, the fields of   *)
(* the YCbCr object, the open file handles and the position in the         *)
(* operation that main() dispatched to.                                    *)
(***************************************************************************)
VARIABLES
    op,               \* the operation run on the object
    width, height, yuv_format_in, yuv_format_out,  \* constructor arguments
    file_in,          \* bytes of the file named filename
    filename_diff,    \* constructor argument: a file name or None
    file_diff,        \* bytes of the file named filename_diff
    frame_size_in, num_frames, layout_in, frame_size_out, layout_out,
    y, cb, cr, raw,   \* self.y, self.cb, self.cr, self.raw
    stderr,           \* the warnings printed so far
    pc,               \* control location
    i,                \* the loop variable of the running operation
    err,              \* the exception that ended the run, or "none"
    open_fds,         \* the file handles that are open
    pos,              \* read offsets of the first and the second input
    file_out,         \* what the operation has produced so far
    frame             \* the planes handed to the codec or the filters

vars == <<op, width, height, yuv_format_in, yuv_format_out, file_in,
          filename_diff, file_diff,
          frame_size_in, num_frames, layout_in, frame_size_out, layout_out,
          y, cb, cr, raw, stderr, pc, i, err, open_fds, pos, file_out, frame>>

args == <<op, width, height, yuv_format_in, yuv_format_out, file_in,
          filename_diff, file_diff, frame>>

fields == <<frame_size_in, num_frames, layout_in, frame_size_out, layout_out,
            stderr>>

planes == <<y, cb, cr, raw>>

Ops == {"convert", "diff", "split", "psnr", "get_luma"}

\* file contents: runs of `run` bytes alternating between lo and hi
Patterns == {[lo |-> 128, hi |-> 128, run |-> 1],
             [lo |-> 0, hi |-> 255, run |-> 1],
             [lo |-> 255, hi |-> 0, run |-> 2]}

Gen(pat, p) == IF (p \div pat.run) % 2 = 0 THEN pat.lo ELSE pat.hi

FileOf(pat, size) == [k \in 1..size |-> Gen(pat, k - 1)]

Init ==
    /\ op \in Ops
    /\ \E d \in Dims : width = d[1] /\ height = d[2]
    /\ yuv_format_in \in FormatsIn \cup {"422"}
    /\ yuv_format_out \in IF op = "convert" THEN FormatsOut ELSE {None}
    /\ \E n \in 0..MaxFrames, t \in 0..MaxTail, pat \in Patterns :
         LET fs == get_frame_size(yuv_format_in, width, height)
         IN /\ file_in = FileOf(pat, n * fs + t)
            /\ filename_diff = IF op \in {"diff", "psnr"} THEN "diff.yuv" ELSE None
            /\ file_diff \in IF op \in {"diff", "psnr"}
                             THEN {FileOf([pat EXCEPT !.run = 1], m * fs) :
                                      m \in {n, Max(n - 1, 0)}}
                             ELSE {<<>>}
    /\ frame_size_in = None /\ num_frames = None /\ layout_in = None
    /\ frame_size_out = None /\ layout_out = None
    /\ y = None /\ cb = None /\ cr = None /\ raw = None
    /\ stderr = {}
    /\ pc = "new"
    /\ i = 0
    /\ err = "none"
    /\ open_fds = {}
    /\ pos = [a |-> 0, b |-> 0]
    /\ file_out = <<>>
    /\ frame = None

(***************************************************************************)
(* YCbCr.__init__ with YCbCr.__check.                                      *)
(***************************************************************************)
check(w, h, size, nf, fs_in, fname_diff, diff) ==
    (IF w % 16 # 0 THEN {"width not divisable by 16"} ELSE {})
    \cup (IF h % 16 # 0 THEN {"hight not divisable by 16"} ELSE {})
    \cup (IF nf * fs_in # size THEN {"# frames not integer"} ELSE {})
    \cup (IF fname_diff # None /\ Len(diff) # size
          THEN {"file-sizes are not equal"} ELSE {})

Construct ==
    /\ pc = "new"
    /\ IF yuv_format_in \notin FormatsIn \cup {None}
          \/ yuv_format_out \notin FormatsOut \cup {None}
       THEN /\ err' = "NameError"
            /\ pc' = "raised"
            /\ UNCHANGED fields
       ELSE LET fs_in == get_frame_size(yuv_format_in, width, height)
                nf == Len(file_in) \div fs_in
            IN /\ frame_size_in' = fs_in
               /\ num_frames' = nf
               /\ layout_in' = get_layout(yuv_format_in, width, height)
               /\ IF yuv_format_out # None
                  THEN /\ frame_size_out' =
                              get_frame_size(yuv_format_out, width, height)
                       /\ layout_out' = get_layout(yuv_format_out, width, height)
                  ELSE /\ frame_size_out' = None
                       /\ layout_out' = None
               /\ stderr' = check(width, height, Len(file_in), nf, fs_in,
                                  filename_diff, file_diff)
               /\ pc' = "ready"
               /\ err' = "none"
    /\ UNCHANGED <<args, planes, i, open_fds, pos, file_out>>

(***************************************************************************)
(* Reading one frame: array.fromfile and the three slices.                 *)
(***************************************************************************)
\* raw.fromfile(fd, n): n items, or EOFError after taking what is left
fromfile(file, p, n) ==
    IF Len(file) - p >= n
    THEN [err |-> "none", raw |-> SubSeq(file, p + 1, p + n)]
    ELSE [err |-> "EOFError", raw |-> SubSeq(file, p + 1, Len(file))]

\* the fields self.y, self.cb, self.cr, self.raw after __read_frame
ReadFrame(file, p) ==
    LET r == fromfile(file, p, frame_size_in)
        f == read_frame(r.raw, layout_in)
    IN IF r.err = "none"
       THEN [err |-> "none", y |-> f.y, cb |-> f.cb, cr |-> f.cr, raw |-> r.raw]
       ELSE [err |-> r.err, y |-> <<>>, cb |-> <<>>, cr |-> <<>>, raw |-> r.raw]

(***************************************************************************)
(* YCbCr.convert.                                                          *)
(***************************************************************************)
ConvertOpen ==
    /\ pc = "ready" /\ op = "convert"
    /\ open_fds' = {"fd_in", "fd_out"}
    /\ file_out' = <<>>
    /\ i' = 0
    /\ pc' = "convert"
    /\ UNCHANGED <<args, fields, planes, err, pos>>

ConvertRead ==
    /\ pc = "convert" /\ i < num_frames
    /\ LET r == ReadFrame(file_in, pos.a)
       IN /\ y' = r.y /\ cb' = r.cb /\ cr' = r.cr /\ raw' = r.raw
          /\ pos' = [pos EXCEPT !.a = pos.a + Len(r.raw)]
          /\ IF r.err = "none"
             THEN pc' = "resample" /\ UNCHANGED <<err, open_fds>>
             ELSE pc' = "raised" /\ err' = r.err /\ open_fds' = {}
    /\ UNCHANGED <<args, fields, i, file_out>>

\* __write_frame, first half: self.__resample()
ConvertResample ==
    /\ pc = "resample"
    /\ LET r == resample(yuv_format_in, yuv_format_out, width, height, cb, cr)
       IN /\ cb' = r.cb /\ cr' = r.cr
          /\ IF r.err = "none"
             THEN pc' = "encode" /\ UNCHANGED <<err, open_fds>>
             ELSE pc' = "raised" /\ err' = r.err /\ open_fds' = {}
    /\ UNCHANGED <<args, fields, y, raw, i, pos, file_out>>

\* __write_frame, second half: build data and write it; then the loop tail
ConvertEncode ==
    /\ pc = "encode"
    /\ LET e == encode(y, cb, cr, layout_out, frame_size_out)
       IN IF e.err = "none"
          THEN /\ file_out' = file_out \o e.val
               /\ i' = i + 1
               /\ pc' = "convert"
               /\ UNCHANGED <<err, open_fds>>
          ELSE /\ pc' = "raised" /\ err' = e.err /\ open_fds' = {}
               /\ UNCHANGED <<file_out, i>>
    /\ UNCHANGED <<args, fields, planes, pos>>

ConvertClose ==
    /\ pc = "convert" /\ i >= num_frames
    /\ open_fds' = {}
    /\ pc' = "done"
    /\ UNCHANGED <<args, fields, planes, i, err, pos, file_out>>

(***************************************************************************)
(* YCbCr.diff.  fd_out is opened before the with-block and closed after    *)
(* it; the with-block owns fd_1 and fd_2 only.                             *)
(***************************************************************************)
\* D.append(max(0, min(255, (0x80 - abs(x - y))))) over zip(data1, data2)
luma_diff(data1, data2) ==
    [k \in 1..Min(Len(data1), Len(data2)) |->
        Max(0, Min(255, 128 - Abs(data1[k] - data2[k])))]

DiffOpen ==
    /\ pc = "ready" /\ op = "diff"
    /\ open_fds' = {"fd_out", "fd_1", "fd_2"}
    /\ file_out' = <<>>
    /\ i' = 0
    /\ pc' = "diff"
    /\ UNCHANGED <<args, fields, planes, err, pos>>

\* one iteration: two __read_frame calls, then the two writes
DiffFrame ==
    /\ pc = "diff" /\ i < num_frames
    /\ LET r1 == ReadFrame(file_in, pos.a)
           r2 == ReadFrame(file_diff, pos.b)
           chroma == [k \in 1..((width * height) \div 2) |-> 128]
       IN IF r1.err # "none"
          THEN /\ y' = r1.y /\ cb' = r1.cb /\ cr' = r1.cr /\ raw' = r1.raw
               /\ pos' = [pos EXCEPT !.a = pos.a + Len(r1.raw)]
               /\ pc' = "raised" /\ err' = r1.err
               /\ open_fds' = open_fds \ {"fd_1", "fd_2"}
               /\ UNCHANGED <<file_out, i>>
          ELSE /\ y' = r2.y /\ cb' = r2.cb /\ cr' = r2.cr /\ raw' = r2.raw
               /\ pos' = [a |-> pos.a + Len(r1.raw), b |-> pos.b + Len(r2.raw)]
               /\ IF r2.err # "none"
                  THEN /\ pc' = "raised" /\ err' = r2.err
                       /\ open_fds' = open_fds \ {"fd_1", "fd_2"}
                       /\ UNCHANGED <<file_out, i>>
                  ELSE /\ file_out' = file_out \o luma_diff(r1.y, r2.y) \o chroma
                       /\ i' = i + 1
                       /\ UNCHANGED <<pc, err, open_fds>>
    /\ UNCHANGED <<args, fields>>

DiffClose ==
    /\ pc = "diff" /\ i >= num_frames
    /\ open_fds' = {}
    /\ pc' = "done"
    /\ UNCHANGED <<args, fields, planes, i, err, pos, file_out>>

(***************************************************************************)
(* YCbCr.split: file_out is the list of frame files written.               *)
(***************************************************************************)
SplitOpen ==
    /\ pc = "ready" /\ op = "split"
    /\ open_fds' = {"src_yuv"}
    /\ file_out' = <<>>
    /\ i' = 0
    /\ pc' = "split"
    /\ UNCHANGED <<args, fields, planes, err, pos>>

\* src_yuv.read(n) returns what is there, at most n bytes; the frame file is
\* opened, written and closed within the iteration
SplitFrame ==
    /\ pc = "split" /\ i < num_frames
    /\ LET data == SubSeq(file_in, pos.a + 1, Min(Len(file_in), pos.a + frame_size_in))
       IN /\ file_out' = Append(file_out, data)
          /\ pos' = [pos EXCEPT !.a = pos.a + Len(data)]
    /\ i' = i + 1
    /\ UNCHANGED <<args, fields, planes, pc, err, open_fds>>

SplitClose ==
    /\ pc = "split" /\ i >= num_frames
    /\ open_fds' = {}
    /\ pc' = "done"
    /\ UNCHANGED <<args, fields, planes, i, err, pos, file_out>>

(***************************************************************************)
(* YCbCr.psnr, driven to exhaustion by its caller: file_out is the list of *)
(* yielded values, each the four sums of squared errors (the logarithm is  *)
(* left out).                                                              *)
(***************************************************************************)
RECURSIVE SumSq(_, _, _)
SumSq(d1, d2, n) ==
    IF n = 0 THEN 0
    ELSE (d1[n] - d2[n]) * (d1[n] - d2[n]) + SumSq(d1, d2, n - 1)

sum_square_err(d1, d2) == SumSq(d1, d2, Min(Len(d1), Len(d2)))

PsnrOpen ==
    /\ pc = "ready" /\ op = "psnr"
    /\ open_fds' = {"fd_1", "fd_2"}
    /\ file_out' = <<>>
    /\ i' = 0
    /\ pc' = "psnr"
    /\ UNCHANGED <<args, fields, planes, err, pos>>

\* one iteration up to the yield; sum_square_err(x, y) / float(len(x))
\* divides by zero when a plane of the first frame is empty
PsnrFrame ==
    /\ pc = "psnr" /\ i < num_frames
    /\ LET r1 == ReadFrame(file_in, pos.a)
           r2 == ReadFrame(file_diff, pos.b)
       IN IF r1.err # "none"
          THEN /\ y' = r1.y /\ cb' = r1.cb /\ cr' = r1.cr /\ raw' = r1.raw
               /\ pos' = [pos EXCEPT !.a = pos.a + Len(r1.raw)]
               /\ pc' = "raised" /\ err' = r1.err /\ open_fds' = {}
               /\ UNCHANGED <<file_out, i>>
          ELSE /\ y' = r2.y /\ cb' = r2.cb /\ cr' = r2.cr /\ raw' = r2.raw
               /\ pos' = [a |-> pos.a + Len(r1.raw), b |-> pos.b + Len(r2.raw)]
               /\ IF r2.err # "none"
                  THEN /\ pc' = "raised" /\ err' = r2.err /\ open_fds' = {}
                       /\ UNCHANGED <<file_out, i>>
                  ELSE IF \E x \in {r1.y, r1.cb, r1.cr, r1.raw} : Len(x) = 0
                  THEN /\ pc' = "raised" /\ err' = "ZeroDivisionError"
                       /\ open_fds' = {}
                       /\ UNCHANGED <<file_out, i>>
                  ELSE /\ file_out' = Append(file_out,
                              <<sum_square_err(r1.y, r2.y),
                                sum_square_err(r1.cb, r2.cb),
                                sum_square_err(r1.cr, r2.cr),
                                sum_square_err(r1.raw, r2.raw)>>)
                       /\ i' = i + 1
                       /\ UNCHANGED <<pc, err, open_fds>>
    /\ UNCHANGED <<args, fields>>

PsnrClose ==
    /\ pc = "psnr" /\ i >= num_frames
    /\ open_fds' = {}
    /\ pc' = "done"
    /\ UNCHANGED <<args, fields, planes, i, err, pos, file_out>>

(***************************************************************************)
(* YCbCr.get_luma, driven to exhaustion: file_out is the list of yielded   *)
(* luma planes.                                                            *)
(***************************************************************************)
GetLumaOpen ==
    /\ pc = "ready" /\ op = "get_luma"
    /\ open_fds' = {"fd_in"}
    /\ file_out' = <<>>
    /\ i' = 0
    /\ pc' = "get_luma"
    /\ UNCHANGED <<args, fields, planes, err, pos>>

GetLumaFrame ==
    /\ pc = "get_luma" /\ i < num_frames
    /\ LET r == ReadFrame(file_in, pos.a)
       IN /\ y' = r.y /\ cb' = r.cb /\ cr' = r.cr /\ raw' = r.raw
          /\ pos' = [pos EXCEPT !.a = pos.a + Len(r.raw)]
          /\ IF r.err = "none"
             THEN /\ file_out' = Append(file_out, r.y)
                  /\ i' = i + 1
                  /\ UNCHANGED <<pc, err, open_fds>>
             ELSE /\ pc' = "raised" /\ err' = r.err /\ open_fds' = {}
                  /\ UNCHANGED <<file_out, i>>
    /\ UNCHANGED <<args, fields>>

GetLumaClose ==
    /\ pc = "get_luma" /\ i >= num_frames
    /\ open_fds' = {}
    /\ pc' = "done"
    /\ UNCHANGED <<args, fields, planes, i, err, pos, file_out>>

Next ==
    \/ Construct
    \/ ConvertOpen \/ ConvertRead \/ ConvertResample \/ ConvertEncode \/ ConvertClose
    \/ DiffOpen \/ DiffFrame \/ DiffClose
    \/ SplitOpen \/ SplitFrame \/ SplitClose
    \/ PsnrOpen \/ PsnrFrame \/ PsnrClose
    \/ GetLumaOpen \/ GetLumaFrame \/ GetLumaClose

Spec == Init /\ [][Next]_vars

(***************************************************************************)
(* The codec on its own: planes of the sizes of a format's family are      *)
(* written into a buffer with the format's layout (the assignments of      *)
(* __write_frame) and the buffer is read back with the same layout (the    *)
(* slices of __read_frame).                                                *)
(***************************************************************************)
CodecDims == {d \in (1..MaxCodec) \X (1..MaxCodec) : d[1] % 2 = 0 /\ d[2] % 2 = 0}

PlaneOf(n, first, step) == [k \in 1..n |-> (first + (k - 1) * step) % 256]

PlaneChoices(n) == {PlaneOf(n, a, b) : a \in {0, 50, 100, 200}, b \in {0, 1}}

ChromaLen(fmt, w, h) ==
    IF fmt \in {"YV12", "IYUV"} THEN (w * h) \div 4 ELSE (w * h) \div 2

InitCodec ==
    /\ op = "codec"
    /\ \E d \in CodecDims : width = d[1] /\ height = d[2]
    /\ yuv_format_out \in FormatsOut
    /\ yuv_format_in = yuv_format_out
    /\ frame \in [y : PlaneChoices(width * height),
                  cb : PlaneChoices(ChromaLen(yuv_format_out, width, height)),
                  cr : PlaneChoices(ChromaLen(yuv_format_out, width, height))]
    /\ file_in = <<>> /\ filename_diff = None /\ file_diff = <<>>
    /\ frame_size_in = get_frame_size(yuv_format_in, width, height)
    /\ layout_in = get_layout(yuv_format_in, width, height)
    /\ frame_size_out = get_frame_size(yuv_format_out, width, height)
    /\ layout_out = get_layout(yuv_format_out, width, height)
    /\ num_frames = 1
    /\ y = None /\ cb = None /\ cr = None /\ raw = None
    /\ stderr = {}
    /\ pc = "planes"
    /\ i = 0
    /\ err = "none"
    /\ open_fds = {}
    /\ pos = [a |-> 0, b |-> 0]
    /\ file_out = <<>>

CodecEncode ==
    /\ pc = "planes"
    /\ LET e == encode(frame.y, frame.cb, frame.cr, layout_out, frame_size_out)
       IN IF e.err = "none"
          THEN raw' = e.val /\ pc' = "encoded" /\ UNCHANGED err
          ELSE raw' = e.val /\ pc' = "raised" /\ err' = e.err
    /\ UNCHANGED <<args, fields, y, cb, cr, i, open_fds, pos, file_out>>

CodecDecode ==
    /\ pc = "encoded"
    /\ LET f == read_frame(raw, layout_in)
       IN y' = f.y /\ cb' = f.cb /\ cr' = f.cr
    /\ pc' = "decoded"
    /\ UNCHANGED <<args, fields, raw, i, err, open_fds, pos, file_out>>

NextCodec == CodecEncode \/ CodecDecode

SpecCodec == InitCodec /\ [][NextCodec]_vars

(***************************************************************************)
(* The filters on their own: frame.cb is a source chroma plane of the size *)
(* the filter expects, cb receives what the filter returns.                *)
(***************************************************************************)
SrcLen(o, w, h) ==
    IF o = "conv420to422" THEN (w \div 2) * (h \div 2) ELSE (w \div 2) * h

FilterDims(o) ==
    {d \in (1..16) \X (1..16) :
        /\ d[1] % 2 = 0 /\ d[2] % 2 = 0
        /\ SrcLen(o, d[1], d[2]) <= MaxPlane}

ConstantPlane(n, c) == [k \in 1..n |-> c]

\* frames tall enough for every tap of both filters to fall on its own row
TapDims == {<<2, 16>>, <<4, 16>>}

\* one sample set apart from the rest of the plane
ImpulsePlane(n, p, lo, hi) == [k \in 1..n |-> IF k = p THEN hi ELSE lo]

TapPlanes(n) ==
    {ImpulsePlane(n, p, 0, 255) : p \in 1..n}
       \cup {ImpulsePlane(n, p, 255, 0) : p \in 1..n}

\* the chroma planes a filter is run on
SourcePlanes(n) ==
    (IF n <= MaxPlane THEN [1..n -> Samples] ELSE {})
       \cup {ConstantPlane(n, c) : c \in 0..255}
       \cup TapPlanes(n)

InitFilter ==
    /\ op \in {"conv420to422", "conv422to420"}
    /\ \E d \in FilterDims(op) \cup TapDims : width = d[1] /\ height = d[2]
    /\ \E src \in SourcePlanes(SrcLen(op, width, height)) :
          frame = [y |-> <<>>, cb |-> src, cr |-> <<>>]
    /\ yuv_format_in = None /\ yuv_format_out = None
    /\ file_in = <<>> /\ filename_diff = None /\ file_diff = <<>>
    /\ frame_size_in = None /\ num_frames = None /\ layout_in = None
    /\ frame_size_out = None /\ layout_out = None
    /\ y = None /\ cb = None /\ cr = None /\ raw = None
    /\ stderr = {}
    /\ pc = "src"
    /\ i = 0
    /\ err = "none"
    /\ open_fds = {}
    /\ pos = [a |-> 0, b |-> 0]
    /\ file_out = <<>>

\* as __resample calls it: dst = [0] * (width * height / 2)
Conv420to422 ==
    /\ pc = "src" /\ op = "conv420to422"
    /\ LET r == conv420to422(frame.cb, Zeros((width * height) \div 2), width, height)
       IN cb' = r.val /\ err' = r.err
    /\ pc' = "filtered"
    /\ UNCHANGED <<args, fields, y, cr, raw, i, open_fds, pos, file_out>>

\* as __resample calls it: dst = [0] * (width * height / 4)
Conv422to420 ==
    /\ pc = "src" /\ op = "conv422to420"
    /\ LET r == conv422to420(frame.cb, Zeros((width * height) \div 4), width, height)
       IN cb' = r.val /\ err' = r.err
    /\ pc' = "filtered"
    /\ UNCHANGED <<args, fields, y, cr, raw, i, open_fds, pos, file_out>>

NextFilter == Conv420to422 \/ Conv422to420

SpecFilter == InitFilter /\ [][NextFilter]_vars

(***************************************************************************)
(* Properties.                                                             *)
(***************************************************************************)
\* the two subsampling families, as the specification names them
Family420 == {"YV12", "IYUV"}
Family422 == {"UYVY", "YVYU", "YUY2", "422"}

\* __init__ has returned normally
Constructed == pc \notin {"new", "planes", "encoded", "decoded", "src", "filtered"}
               /\ err # "NameError"

EvenDims == width % 2 = 0 /\ height % 2 = 0

FrameSizeOf(fmt) ==
    IF fmt \in Family420 THEN (width * height * 3) \div 2 ELSE width * height * 2

\* C1: frame size law.  Once the object is constructed, the frame size of a
\* 4:2:0 format is width*height*3/2 (integer division) and that of a 4:2:2
\* format is width*height*2; 384 for YV12 16x16 and 512 for UYVY 16x16.
C1_FrameSizeLaw ==
    Constructed =>
        /\ frame_size_in = FrameSizeOf(yuv_format_in)
        /\ yuv_format_out # None => frame_size_out = FrameSizeOf(yuv_format_out)
        /\ (width = 16 /\ height = 16 /\ yuv_format_in = "YV12")
              => frame_size_in = 384
        /\ (width = 16 /\ height = 16 /\ yuv_format_in = "UYVY")
              => frame_size_in = 512

C1_Witness ==
    /\ pc = "ready" /\ width = 16 /\ height = 16
    /\ yuv_format_in = "IYUV" /\ frame_size_in = 384
    /\ yuv_format_out = "422" /\ frame_size_out = 512

\* the positions of the specification's table
RangePos(a, b) == [k \in 1..(b - a) |-> a + k - 1]

StridePos(start, step, fs) ==
    [k \in 1..((fs - start + step - 1) \div step) |-> start + (k - 1) * step]

TableLayout(fmt) ==
    LET wh == width * height
        fs == FrameSizeOf(fmt)
    IN CASE fmt = "YV12" -> <<RangePos(0, wh), RangePos(wh, wh + wh \div 4),
                              RangePos(wh + wh \div 4, wh + wh \div 2)>>
         [] fmt = "IYUV" -> <<RangePos(0, wh), RangePos(wh + wh \div 4, wh + wh \div 2),
                              RangePos(wh, wh + wh \div 4)>>
         [] fmt = "UYVY" -> <<StridePos(1, 2, fs), StridePos(0, 4, fs), StridePos(2, 4, fs)>>
         [] fmt = "YVYU" -> <<StridePos(0, 2, fs), StridePos(3, 4, fs), StridePos(1, 4, fs)>>
         [] fmt = "YUY2" -> <<StridePos(0, 2, fs), StridePos(1, 4, fs), StridePos(3, 4, fs)>>
         [] fmt = "422" -> <<RangePos(0, wh), RangePos(wh, wh + wh \div 2),
                             RangePos(wh + wh \div 2, wh * 2)>>

\* the positions the accessors of a layout select in a frame of fs bytes
LayoutPositions(layout, fs) ==
    <<SlicePositions(layout[1], fs), SlicePositions(layout[2], fs),
      SlicePositions(layout[3], fs)>>

\* C2: for YV12, IYUV, UYVY, YVYU and YUY2 with even width and height, the
\* layout holds the accessors in the order (Y, Cb, Cr) and they select exactly
\* the positions of the table.
C2_LayoutTable ==
    (Constructed /\ EvenDims) =>
        /\ LayoutPositions(layout_in, frame_size_in) = TableLayout(yuv_format_in)
        /\ yuv_format_out \in FormatsIn =>
              LayoutPositions(layout_out, frame_size_out) = TableLayout(yuv_format_out)

C2_Witness ==
    /\ pc = "ready" /\ width = 2 /\ height = 2
    /\ yuv_format_in = "IYUV" /\ yuv_format_out = "YVYU"
    /\ LayoutPositions(layout_in, frame_size_in) = <<<<0, 1, 2, 3>>, <<5>>, <<4>>>>
    /\ LayoutPositions(layout_out, frame_size_out) = <<<<0, 2, 4, 6>>, <<3, 7>>, <<1, 5>>>>

\* the positions an accessor names, before Python clips them to a buffer
AccessorPositions(sl) ==
    {q \in sl.start..(sl.stop - 1) : (q - sl.start) % sl.step = 0}

IsPartition(layout, fs) ==
    LET P(k) == AccessorPositions(layout[k])
    IN /\ P(1) \cap P(2) = {}
       /\ P(1) \cap P(3) = {}
       /\ P(2) \cap P(3) = {}
       /\ P(1) \cup P(2) \cup P(3) = 0..(fs - 1)

\* C3: layout partition.  For every supported format and even width and
\* height the positions of the three accessors are pairwise disjoint, their
\* union is exactly [0, frame_size), and the generic 4:2:2 layout is
\* Y=[0,wh), Cb=[wh,wh+wh/2), Cr=[wh+wh/2,wh*2).
C3_LayoutPartition ==
    (Constructed /\ EvenDims) =>
        /\ IsPartition(layout_in, frame_size_in)
        /\ yuv_format_out # None =>
              /\ IsPartition(layout_out, frame_size_out)
              /\ LayoutPositions(layout_out, frame_size_out)
                    = TableLayout(yuv_format_out)

\* C4: round trip.  Planes written into a buffer with a format's layout and
\* read back with the same layout come back unchanged.
C4_RoundTrip ==
    pc = "decoded" => (y = frame.y /\ cb = frame.cb /\ cr = frame.cr)

\* C5: output clamping.  Every sample a filter stores lies in [0, 255].
C5_OutputClamped ==
    (pc = "filtered" /\ err = "none") =>
        \A k \in 1..Len(cb) : cb[k] >= 0 /\ cb[k] <= 255

IsConstant(plane) == \A k \in 1..Len(plane) : plane[k] = plane[1]

\* C6: constant-chroma invariance.  A source plane filled with one value c is
\* mapped by either filter to a destination plane filled with c.
C6_ConstantChroma ==
    (pc = "filtered" /\ IsConstant(frame.cb)) =>
        /\ err = "none"
        /\ Len(cb) = (IF op = "conv420to422"
                      THEN (width * height) \div 2 ELSE (width * height) \div 4)
        /\ \A k \in 1..Len(cb) : cb[k] = frame.cb[1]

C6_Witness ==
    /\ pc = "filtered" /\ op = "conv422to420" /\ width = 2 /\ height = 8
    /\ frame.cb = ConstantPlane(8, 77)
    /\ cb = ConstantPlane(4, 77)

\* C7: resampling is selected by subsampling family only.  When the planes
\* reach the encoder, Cb and Cr are the upsampled decoded planes if the input
\* is 4:2:0 and the output 4:2:2, the downsampled ones if the input is 4:2:2
\* and the output 4:2:0, and the decoded planes themselves otherwise; Y is
\* always the decoded Y plane.
C7_ResampleByFamily ==
    pc = "encode" =>
        LET d == read_frame(raw, layout_in)
            wh == width * height
            up == yuv_format_in \in Family420 /\ yuv_format_out \in Family422
            down == yuv_format_in \in Family422 /\ yuv_format_out \in Family420
        IN /\ y = d.y
           /\ up => /\ cb = conv420to422(d.cb, Zeros(wh \div 2), width, height).val
                    /\ cr = conv420to422(d.cr, Zeros(wh \div 2), width, height).val
           /\ down => /\ cb = conv422to420(d.cb, Zeros(wh \div 4), width, height).val
                      /\ cr = conv422to420(d.cr, Zeros(wh \div 4), width, height).val
           /\ (~up /\ ~down) => (cb = d.cb /\ cr = d.cr)

C7_Witness ==
    /\ pc = "encode" /\ yuv_format_in = "IYUV" /\ yuv_format_out = "422"
    /\ width = 2 /\ height = 16
    /\ Len(read_frame(raw, layout_in).cb) = 8 /\ Len(cb) = 16
    /\ y = read_frame(raw, layout_in).y

\* C8: warning-not-failure on file size.  When the input size is no multiple
\* of the input frame size, construction warns and does not fail, the frame
\* count is floor(size / frame_size_in), and convert reads and writes exactly
\* that many frames without aborting.
C8_FileSizeWarning ==
    (pc # "new" /\ yuv_format_in \in FormatsIn
       /\ Len(file_in) % FrameSizeOf(yuv_format_in) # 0) =>
        /\ err # "NameError"
        /\ "# frames not integer" \in stderr
        /\ num_frames = Len(file_in) \div FrameSizeOf(yuv_format_in)
        /\ op = "convert" =>
              /\ pc # "raised"
              /\ pc = "done" =>
                    /\ i = num_frames
                    /\ pos.a = num_frames * frame_size_in
                    /\ Len(file_out) = num_frames * frame_size_out

\* C9: warning-not-failure on dimensions.  For positive width and height
\* that are not multiples of 16 and any pair of formats, the only effect of
\* the dimensions is a warning: construction succeeds and convert processes
\* every frame without raising.
C9_DimensionWarning ==
    (pc # "new" /\ yuv_format_in \in FormatsIn
       /\ (width % 16 # 0 \/ height % 16 # 0)) =>
        /\ err # "NameError"
        /\ width % 16 # 0 => "width not divisable by 16" \in stderr
        /\ height % 16 # 0 => "hight not divisable by 16" \in stderr
        /\ op = "convert" =>
              /\ pc # "raised"
              /\ pc = "done" => i = num_frames

\* C10: file-handle closure.  When an operation has ended, normally or by an
\* exception, every file handle it opened is closed.
C10_HandlesClosed ==
    pc \in {"done", "raised"} => open_fds = {}

\* the n-th frame_size_in bytes of the input file (n counted from 0)
InputFrame(n) ==
    SubSeq(file_in, n * frame_size_in + 1, (n + 1) * frame_size_in)

\* what one input frame alone determines: decode, resample, encode
ConversionOf(frame_in) ==
    LET d == read_frame(frame_in, layout_in)
        r == resample(yuv_format_in, yuv_format_out, width, height, d.cb, d.cr)
    IN encode(d.y, r.cb, r.cr, layout_out, frame_size_out).val

\* C11: frame order and independence.  After k completed iterations of
\* convert the output holds exactly k frames of frame_size_out bytes each,
\* and the n-th of them is the conversion of the n-th input frame alone.
C11_FrameOrder ==
    (op = "convert" /\ pc \in {"convert", "done"}) =>
        /\ Len(file_out) = i * frame_size_out
        /\ \A n \in 0..(i - 1) :
              SubSeq(file_out, n * frame_size_out + 1, (n + 1) * frame_size_out)
                 = ConversionOf(InputFrame(n))

\* the downsampled sample at column c, even row j of a plane of w columns
\* and h rows, as the claim writes it
DownsampledPel(src, w, h, c, j) ==
    LET s(r) == src[c + w * r + 1]
        jm(k) == Max(j - k, 0)
        jp(k) == Min(j + k, h - 1)
        sixth == jp(5)
    IN (228 * (s(j) + s(jp(1))) + 70 * (s(jm(1)) + s(jp(2)))
          - 37 * (s(jm(2)) + s(jp(3))) - 21 * (s(jm(3)) + s(jp(4)))
          + 11 * (s(jm(4)) + s(jp(5))) + 5 * (s(jm(5)) + s(sixth)) + 256)
       \div 512

\* C12: downsample taps.  For every column i < width/2 and every even row j
\* the 4:2:2 -> 4:2:0 filter computes the twelve-tap sum with rows clamped to
\* [0, height-1] and the sixth lower tap on the same row as the fifth, adds
\* 256 and shifts right by 9; that value, capped at 255, is what it stores
\* at output row j/2, column i.
C12_DownsampleTaps ==
    (pc = "filtered" /\ op = "conv422to420") =>
        LET w == width \div 2
        IN \A c \in 0..(w - 1) : \A j \in {r \in 0..(height - 1) : r % 2 = 0} :
              LET pel == DownsampledPel(frame.cb, w, height, c, j)
              IN /\ pel422to420(frame.cb, w, height, c, j) = pel
                 /\ cb[c + w * (j \div 2) + 1] = Min(pel, 255)

C12_Witness ==
    /\ pc = "filtered" /\ op = "conv422to420" /\ width = 2 /\ height = 16
    /\ frame.cb = ImpulsePlane(16, 16, 0, 255)
    /\ jp6(10, height) = 15 /\ Jp(10, 5, height) = 15
    /\ cb[6] = 8

\* the two upsampled samples made from column c, row j of a plane of w
\* columns and h rows, as the claim writes them
UpsampledPelEven(src, w, h, c, j) ==
    LET s(r) == src[c + w * r + 1]
        jm(k) == Max(j - k, 0)
        jp(k) == Min(j + k, h - 1)
    IN (3 * s(jm(3)) - 16 * s(jm(2)) + 67 * s(jm(1)) + 227 * s(j)
          - 32 * s(jp(1)) + 7 * s(jp(2)) + 128) \div 256

UpsampledPelOdd(src, w, h, c, j) ==
    LET s(r) == src[c + w * r + 1]
        jm(k) == Max(j - k, 0)
        jp(k) == Min(j + k, h - 1)
    IN (3 * s(jp(3)) - 16 * s(jp(2)) + 67 * s(jp(1)) + 227 * s(j)
          - 32 * s(jm(1)) + 7 * s(jm(2)) + 128) \div 256

\* C13: upsample taps.  With w = width>>1 and h = height>>1, for every column
\* c < w and input row j < h the 4:2:0 -> 4:2:2 filter computes the six-tap
\* sum for output row 2j and the mirrored sum for output row 2j+1, rows
\* clamped to [0, h-1], bias 128 added before the shift by 8; the plane it
\* returns has 2h rows of w samples and each holds that value, capped at 255
\* after the shift.
C13_UpsampleTaps ==
    (pc = "filtered" /\ op = "conv420to422") =>
        LET w == width \div 2
            h == height \div 2
        IN /\ Len(cb) = w * 2 * h
           /\ \A c \in 0..(w - 1) : \A j \in 0..(h - 1) :
                 LET even == UpsampledPelEven(frame.cb, w, h, c, j)
                     odd == UpsampledPelOdd(frame.cb, w, h, c, j)
                 IN /\ pel420to422_even(frame.cb, w, h, c, j) = even
                    /\ pel420to422_odd(frame.cb, w, h, c, j) = odd
                    /\ cb[c + w * (2 * j) + 1] = Min(even, 255)
                    /\ cb[c + w * (2 * j + 1) + 1] = Min(odd, 255)

C13_Witness ==
    /\ pc = "filtered" /\ op = "conv420to422" /\ width = 2 /\ height = 16
    /\ frame.cb = ImpulsePlane(8, 4, 0, 255)
    /\ cb = <<0, 3, 7, -16, -32, 67, 226, 226, 67, -32, -16, 7, 3, 0, 0, 0>>

\* how often value v occurs in sequence q
Occurrences(q, v) == Cardinality({p \in 1..Len(q) : q[p] = v})

\* every sample of the three planes is non-zero and occurs once, so a byte of
\* the buffer tells which sample it is
MarkedPlanes(samples) ==
    /\ \A k \in 1..Len(samples) : samples[k] # 0
    /\ \A k, l \in 1..Len(samples) : k # l => samples[k] # samples[l]

\* C14: encode covers the frame exactly.  For every output format, even
\* width and height and planes of the format's sizes, the buffer built from
\* the three plane assignments has frame_size_out bytes, holds every sample
\* of y, cb and cr exactly once and nothing else: no sample is overwritten
\* and no byte keeps the initial 0 fill.
C14_EncodeCovers ==
    /\ op = "codec" => pc # "raised"
    /\ pc = "encoded" =>
          LET samples == frame.y \o frame.cb \o frame.cr
          IN /\ Len(raw) = frame_size_out
             /\ Len(raw) = Len(samples)
             /\ \A k \in 1..Len(samples) :
                   Occurrences(raw, samples[k]) = Occurrences(samples, samples[k])
             /\ MarkedPlanes(samples) =>
                   /\ \A p \in 1..Len(raw) : raw[p] # 0
                   /\ \A k \in 1..Len(samples) : Occurrences(raw, samples[k]) = 1

C14_Witness ==
    /\ pc = "encoded" /\ yuv_format_out = "422" /\ width = 2 /\ height = 2
    /\ frame = [y |-> <<50, 51, 52, 53>>, cb |-> <<100, 101>>, cr |-> <<200, 201>>]
    /\ MarkedPlanes(frame.y \o frame.cb \o frame.cr)
    /\ raw = <<50, 51, 52, 53, 100, 101, 200, 201>>

====
